---- MODULE Spec2Model ----
(***************************************************************************)
(* ScrapeToAPI (src/app/main.py): the document indexer                     *)
(* (build_optimized_index, build_fast_xpath), the scrape itself            *)
(* (simple_scrape), the result cache (scrape_cache) and the session store  *)
(* (scraped_data) with the handlers that read and write them.              *)
(*                                                                         *)
(* Text whose characters matter (text nodes, attribute values, URLs) is a  *)
(* tuple of one-character strings or of tokens, so that strip(), slicing   *)
(* and urljoin() are computed.  Tag names and XPaths are TLA+ strings.     *)
(* Python's None is the empty tuple where the code only tests truthiness,  *)
(* and an optional value is <<>> (None) or <<v>> where None and "" differ. *)
(***************************************************************************)
EXTENDS Integers, Sequences, FiniteSets, TLC

VARIABLES
    scrape_cache,   \* main.py:25  cache key -> [data, timestamp]
    scraped_data,   \* main.py:24  slug -> scraped result
    now,            \* the wall clock read by time.time()
    nbuilds,        \* number of simple_scrape invocations so far
    hashseed,       \* the process's str hash: URL -> hash value
    last,           \* the request handled last and its response
    doc,            \* SpecIndex: the parsed document handed to simple_scrape
    result,         \* the result returned last: by simple_scrape for doc
                    \* (SpecIndex), to a reader of the session store (SpecConc)
    inflight,       \* SpecConc: the /scrape handlers under way, their position
                    \* and their local variables
    walk            \* SpecWalk: the tree and the loop variables of one
                    \* build_fast_xpath call

vars ==
    <<scrape_cache, scraped_data, now, nbuilds, hashseed, last, doc, result,
      inflight, walk>>

-----------------------------------------------------------------------------
(* Bounds of the model *)

\* free nodes below the root element of an enumerated tree
MaxNodes == 3
\* simple_scrape invocations in one behaviour
MaxBuilds == 2
\* the last second of the clock
MaxTime == 7203
\* nodes of a tree handed to one build_fast_xpath call
MaxWalkNodes == 3
\* turns of the loop of build_fast_xpath followed in one call
MaxHops == 5

(* Program constants *)

CACHE_DURATION == 7200
ElementTextCap == 200
LinkTextCap == 100
AltCap == 100
HeadingTextCap == 200
TextContentCap == 300
TextElementsCap == 100
MinTextLen == 10

-----------------------------------------------------------------------------
(* Strings as tuples *)

Whitespace == {" ", "\t", "\n"}

RECURSIVE LStrip(_)
LStrip(s) == IF s # <<>> /\ Head(s) \in Whitespace THEN LStrip(Tail(s)) ELSE s

RECURSIVE RStrip(_)
RStrip(s) ==
    IF s # <<>> /\ s[Len(s)] \in Whitespace
    THEN RStrip(SubSeq(s, 1, Len(s) - 1))
    ELSE s

\* str.strip()
Strip(s) == RStrip(LStrip(s))

\* the slice s[:n]
Take(s, n) == SubSeq(s, 1, IF Len(s) < n THEN Len(s) ELSE n)

RECURSIVE Reverse(_)
Reverse(s) == IF s = <<>> THEN <<>> ELSE Append(Reverse(Tail(s)), Head(s))

\* sep.join(parts) for TLA+ strings
RECURSIVE JoinStr(_, _)
JoinStr(parts, sep) ==
    IF parts = <<>> THEN ""
    ELSE IF Len(parts) = 1 THEN parts[1]
    ELSE parts[1] \o sep \o JoinStr(Tail(parts), sep)

\* the concatenation of a sequence of tuples
RECURSIVE Flatten(_)
Flatten(ss) == IF ss = <<>> THEN <<>> ELSE Head(ss) \o Flatten(Tail(ss))

\* dictionaries
EmptyDict == [k \in {} |-> <<>>]
Put(d, k, v) == [x \in DOMAIN d \cup {k} |-> IF x = k THEN v ELSE d[x]]
AppendAt(d, k, v) == Put(d, k, IF k \in DOMAIN d THEN Append(d[k], v) ELSE <<v>>)

-----------------------------------------------------------------------------
(* The parsed tree (bs4).  Node 1 is the BeautifulSoup object; parent[n] is *)
(* 0 for None; a NavigableString has the name "" (bs4: name None) and its  *)
(* text in data; attrs is the ordered list of <<key, value>> pairs.        *)

Name(t, n) == t.node[n].name
Parent(t, n) == t.parent[n]

\* element.contents
Children(t, n) ==
    SelectSeq([i \in 1..Len(t.node) |-> i], LAMBDA j : t.parent[j] = n)

\* a traversal that visits the siblings of a node before its children
RECURSIVE DescOfSeq_SiblingsFirst(_, _)
DescOfSeq_SiblingsFirst(t, s) ==
    IF s = <<>> THEN <<>>
    ELSE <<Head(s)>> \o DescOfSeq_SiblingsFirst(t, Tail(s))
                     \o DescOfSeq_SiblingsFirst(t, Children(t, Head(s)))

\* element.descendants: the next_element chain, document order
RECURSIVE DescOfSeq(_, _)
DescOfSeq(t, s) ==
    IF s = <<>> THEN <<>>
    ELSE <<Head(s)>> \o DescOfSeq(t, Children(t, Head(s))) \o DescOfSeq(t, Tail(s))

Descendants(t, n) == DescOfSeq(t, Children(t, n))

\* find_all(True): every Tag below n
FindAllTags(t, n) == SelectSeq(Descendants(t, n), LAMBDA j : Name(t, j) # "")

\* find(name): the first Tag of that name below n, 0 for None
Find(t, n, name) ==
    LET hits == SelectSeq(Descendants(t, n), LAMBDA j : Name(t, j) = name)
    IN IF hits = <<>> THEN 0 ELSE hits[1]

\* element.get(key): the value, <<>> when absent
Get(t, n, key) ==
    LET a == t.node[n].attrs
        hits == SelectSeq(a, LAMBDA p : p[1] = key)
    IN IF hits = <<>> THEN <<>> ELSE hits[1][2]

\* element.previous_siblings
PreviousSiblings(t, n) ==
    IF Parent(t, n) = 0 THEN <<>>
    ELSE SelectSeq(Children(t, Parent(t, n)), LAMBDA j : j < n)

\* Tag.string: the single NavigableString below, through single children
RECURSIVE StringOf(_, _)
StringOf(t, n) ==
    LET c == Children(t, n)
    IN IF Len(c) # 1 THEN <<>>
       ELSE IF Name(t, c[1]) = "" THEN <<t.node[c[1]].data>>
       ELSE StringOf(t, c[1])

\* element.get_text(strip=True)
GetText(t, n) ==
    LET strs == SelectSeq(Descendants(t, n), LAMBDA j : Name(t, j) = "")
        stripped == [i \in 1..Len(strs) |-> Strip(t.node[strs[i]].data)]
    IN Flatten(SelectSeq(stripped, LAMBDA s : s # <<>>))

-----------------------------------------------------------------------------
(* URLs are token tuples: <<scheme, netloc>> followed by the path's        *)
(* segments, e.g. https://s.com/a/ is <<"https:", "s.com", "a", "">>; a    *)
(* relative reference is its path's split on "/": "/x" is <<"", "x">> and  *)
(* "../b" is <<"..", "b">>.                                                *)

Schemes == {"https:", "http:"}

\* urljoin's resolution of "." and ".." segments
RECURSIVE ResolveDots(_, _)
ResolveDots(segments, resolved) ==
    IF segments = <<>> THEN resolved
    ELSE LET seg == Head(segments)
         IN IF seg = ".."
            THEN ResolveDots(Tail(segments),
                             IF resolved = <<>> THEN <<>>
                             ELSE SubSeq(resolved, 1, Len(resolved) - 1))
            ELSE IF seg = "." THEN ResolveDots(Tail(segments), resolved)
            ELSE ResolveDots(Tail(segments), Append(resolved, seg))

\* urllib.parse.urljoin(base, url)
urljoin(base, url) ==
    IF url = <<>> THEN base
    ELSE IF base = <<>> THEN url
    ELSE IF url[1] \in Schemes THEN url
    ELSE
      LET bsplit == <<"">> \o SubSeq(base, 3, Len(base))
          base_parts == IF bsplit[Len(bsplit)] # ""
                        THEN SubSeq(bsplit, 1, Len(bsplit) - 1)
                        ELSE bsplit
          joined == base_parts \o url
          segments ==
              IF url[1] = "" THEN url
              ELSE IF Len(joined) < 3 THEN joined
              ELSE <<joined[1]>>
                   \o SelectSeq(SubSeq(joined, 2, Len(joined) - 1), LAMBDA x : x # "")
                   \o <<joined[Len(joined)]>>
          resolved0 == ResolveDots(segments, <<>>)
          resolved == IF segments[Len(segments)] \in {".", ".."}
                      THEN Append(resolved0, "")
                      ELSE resolved0
          path == IF resolved = <<>> \/ resolved = <<"">> THEN <<"">>
                  ELSE IF resolved[1] = "" THEN Tail(resolved)
                  ELSE resolved
      IN <<base[1], base[2]>> \o path

-----------------------------------------------------------------------------
(* Path builder *)

\* a path builder that numbers nothing: every segment is tag[1]
PositionOf_First(t, n) == 1

\* a path builder that takes the raw sibling index: every preceding sibling
\* counts, whatever it is
PositionOf_AnySibling(t, n) == 1 + Len(PreviousSiblings(t, n))

\* main.py:388-393: 1 + the preceding siblings of the same tag name
PositionOf(t, n) ==
    1 + Len(SelectSeq(PreviousSiblings(t, n), LAMBDA j : Name(t, j) = Name(t, n)))

\* main.py:386-402: the walk from the element up to body or html
RECURSIVE XPathWalk(_, _, _)
XPathWalk(t, current, components) ==
    IF current = 0 \/ Name(t, current) = "" THEN components
    ELSE
      LET comps == Append(components,
                          Name(t, current) \o "[" \o ToString(PositionOf(t, current)) \o "]")
          par == Parent(t, current)
      IN IF par # 0 /\ Name(t, par) \in {"body", "html"}
         THEN IF Name(t, par) = "body" THEN Append(comps, "body[1]") ELSE comps
         ELSE XPathWalk(t, par, comps)

build_fast_xpath(t, element) ==
    LET components == Reverse(XPathWalk(t, element, <<>>))
    IN IF components # <<>> THEN "/" \o JoinStr(components, "/") ELSE "/unknown[1]"

-----------------------------------------------------------------------------
(* Indexer *)

EmptyIndex ==
    [by_tag |-> EmptyDict, by_class |-> EmptyDict, by_id |-> EmptyDict,
     by_xpath |-> EmptyDict, links |-> <<>>, images |-> <<>>,
     text_content |-> <<>>, headings |-> <<>>, tables |-> <<>>, forms |-> <<>>]

Headings == {"h1", "h2", "h3", "h4", "h5", "h6"}

\* int(tag[1])
HeadingLevel(tag) ==
    CASE tag = "h1" -> 1 [] tag = "h2" -> 2 [] tag = "h3" -> 3
      [] tag = "h4" -> 4 [] tag = "h5" -> 5 [] OTHER -> 6

\* str.upper() on the method tokens a form carries
Upper(s) ==
    [i \in 1..Len(s) |->
        CASE s[i] = "get" -> "GET" [] s[i] = "post" -> "POST" [] OTHER -> s[i]]

\* main.py:301-307
ElementDict(t, element) ==
    [type |-> "element",
     tag |-> Name(t, element),
     xpath |-> build_fast_xpath(t, element),
     attributes |-> t.node[element].attrs,
     text |-> Take(GetText(t, element), ElementTextCap)]

\* main.py:309-328: by_tag, by_xpath, by_class and by_id take the element
Keyed(t, idx, element, element_dict) ==
    [idx EXCEPT
        !.by_tag = AppendAt(@, Name(t, element), element_dict),
        !.by_xpath = Put(@, element_dict.xpath, element_dict),
        !.by_class = IF Get(t, element, "class") # <<>>
                     THEN AppendAt(@, JoinStr(Get(t, element, "class"), " "), element_dict)
                     ELSE @,
        !.by_id = IF Get(t, element, "id") # <<>>
                  THEN Put(@, Get(t, element, "id"), element_dict)
                  ELSE @]

\* main.py:331-367: the specialized collections, one branch at most; text
\* is element.get_text(strip=True)
Specialized(t, base_url, idx, element, xpath, text) ==
    LET tag == Name(t, element)
    IN IF tag = "a" /\ Get(t, element, "href") # <<>>
       THEN [idx EXCEPT !.links = Append(@,
                [text |-> Take(text, LinkTextCap),
                 url |-> urljoin(base_url, Get(t, element, "href")),
                 xpath |-> xpath])]
       ELSE IF tag = "img" /\ Get(t, element, "src") # <<>>
       THEN [idx EXCEPT !.images = Append(@,
                [src |-> urljoin(base_url, Get(t, element, "src")),
                 alt |-> Take(Get(t, element, "alt"), AltCap),
                 xpath |-> xpath])]
       ELSE IF tag \in Headings
       THEN IF text # <<>>
            THEN [idx EXCEPT !.headings = Append(@,
                    [text |-> Take(text, HeadingTextCap),
                     level |-> HeadingLevel(tag),
                     xpath |-> xpath])]
            ELSE idx
       ELSE IF tag = "table"
       THEN [idx EXCEPT !.tables = Append(@,
                [xpath |-> xpath,
                 rows |-> Len(SelectSeq(Descendants(t, element),
                                        LAMBDA j : Name(t, j) = "tr"))])]
       ELSE IF tag = "form"
       THEN [idx EXCEPT !.forms = Append(@,
                [xpath |-> xpath,
                 action |-> Get(t, element, "action"),
                 method |-> Upper(IF Get(t, element, "method") = <<>>
                                  THEN <<"GET">> ELSE Get(t, element, "method"))])]
       ELSE idx

IndexDict(t, base_url, idx, element, element_dict) ==
    Specialized(t, base_url, Keyed(t, idx, element, element_dict), element,
                element_dict.xpath, GetText(t, element))

\* main.py:291-367: one turn of the loop over all_elements
IndexElement(t, base_url, idx, element) ==
    IndexDict(t, base_url, idx, element, ElementDict(t, element))

RECURSIVE IndexLoop(_, _, _, _)
IndexLoop(t, base_url, idx, elements) ==
    IF elements = <<>> THEN idx
    ELSE IndexLoop(t, base_url, IndexElement(t, base_url, idx, Head(elements)),
                   Tail(elements))

\* main.py:370: find_all(['p', 'div', 'span'], string=True)
TextElements(t, root) ==
    SelectSeq(Descendants(t, root),
              LAMBDA j : Name(t, j) \in {"p", "div", "span"} /\ StringOf(t, j) # <<>>)

\* main.py:372-377: one turn of the loop over text_elements
TextEntry(t, idx, element, text) ==
    IF text # <<>> /\ Len(text) > MinTextLen
    THEN [idx EXCEPT !.text_content = Append(@,
            [text |-> Take(text, TextContentCap),
             xpath |-> build_fast_xpath(t, element)])]
    ELSE idx

RECURSIVE TextLoop(_, _, _)
TextLoop(t, idx, elements) ==
    IF elements = <<>> THEN idx
    ELSE TextLoop(t, TextEntry(t, idx, Head(elements), GetText(t, Head(elements))),
                  Tail(elements))

build_optimized_index(t, root_element, base_url) ==
    TextLoop(t,
             IndexLoop(t, base_url, EmptyIndex, FindAllTags(t, root_element)),
             Take(TextElements(t, root_element), TextElementsCap))

-----------------------------------------------------------------------------
(* The scrape *)

Unwanted == {"script", "style", "noscript", "meta", "link", "head"}

\* main.py:232-233: decompose() takes each such element out of the tree
Decompose(t) ==
    [t EXCEPT !.parent =
        [i \in 1..Len(t.node) |-> IF Name(t, i) \in Unwanted THEN 0 ELSE t.parent[i]]]

NoTitle == <<"N", "o", " ", "t", "i", "t", "l", "e">>

\* main.py:266-271: None is <<>>, a content is <<content>>
get_meta_description(soup) ==
    LET hits == SelectSeq(Descendants(soup, 1),
                          LAMBDA j : Name(soup, j) = "meta"
                                     /\ Get(soup, j, "name") = <<"description">>)
    IN IF hits # <<>> THEN <<Get(soup, hits[1], "content")>> ELSE <<>>

\* main.py:236-238
RootElement(soup) ==
    IF Find(soup, 1, "body") # 0 THEN Find(soup, 1, "body")
    ELSE IF Find(soup, 1, "html") # 0 THEN Find(soup, 1, "html")
    ELSE 1

\* main.py:244-261; unique_tags, a sorted list of distinct keys, is the set
\* of keys
Summarize(url, soup, idx, uid) ==
    [meta |-> [url |-> url,
               title |-> IF Find(soup, 1, "title") # 0
                         THEN StringOf(soup, Find(soup, 1, "title"))
                         ELSE <<NoTitle>>,
               meta_description |-> get_meta_description(soup),
               scraped_at |-> uid],
     index |-> idx,
     stats |-> [total_elements |-> Cardinality(DOMAIN idx.by_xpath),
                links_count |-> Len(idx.links),
                images_count |-> Len(idx.images),
                headings_count |-> Len(idx.headings),
                unique_tags |-> DOMAIN idx.by_tag]]

\* main.py:236-261 on the soup left by the decompose() calls
ScrapeSoup(url, soup, uid) ==
    Summarize(url, soup, build_optimized_index(soup, RootElement(soup), url), uid)

\* main.py:229-261, after the fetch: parsed is BeautifulSoup(response.content),
\* uid the uuid4 prefix drawn for scraped_at
simple_scrape(url, parsed, uid) == ScrapeSoup(url, Decompose(parsed), uid)

-----------------------------------------------------------------------------
(* Documents.  The lxml parser keeps one html and, below it, at most one   *)
(* head and one body open at a time: a body or html start tag met inside   *)
(* the body is dropped, so no element below the root element is named      *)
(* body or html.                                                           *)

Elem(name, attrs) == [name |-> name, attrs |-> attrs, data |-> <<>>]
TextNode(data) == [name |-> "", attrs |-> <<>>, data |-> data]

HelloWorld == <<"H", "e", "l", "l", "o", " ", "w", "o", "r", "l", "d">>
Hi == <<" ", "H", "i">>
PageTitle == <<"D", "o", "c">>
PageDescription == <<"a", "b", "o", "u", "t">>
RelUp == <<"..", "b">>
RelRoot == <<"", "x">>
AbsUrl == <<"https:", "other.com", "x">>
BaseUrl == <<"https:", "s.com", "a", "">>

\* what a node below a body may be
BodyKinds ==
    { Elem("p", <<>>),
      Elem("div", << <<"class", <<"c", "d">>>> >>),
      Elem("a", << <<"href", RelUp>>, <<"class", <<"c", "d">>>> >>),
      Elem("img", << <<"src", RelRoot>>, <<"alt", Hi>>, <<"id", <<"m">>>> >>),
      TextNode(HelloWorld),
      TextNode(Hi) }

\* a document without a body is a frameset document
FrameKinds ==
    { Elem("frameset", <<>>),
      Elem("frame", << <<"src", RelRoot>>, <<"id", <<"m">>>> >>) }

\* the part of a document above the free nodes; its last node is the root
\* element
Prefixes ==
    { [parent |-> <<0, 1, 2, 3, 4, 3, 2>>,
       node |-> << Elem("[document]", <<>>), Elem("html", <<>>), Elem("head", <<>>),
                   Elem("title", <<>>), TextNode(PageTitle),
                   Elem("meta", << <<"name", <<"description">>>>,
                                   <<"content", PageDescription>> >>),
                   Elem("body", <<>>) >>],
      [parent |-> <<0, 1, 2>>,
       node |-> << Elem("[document]", <<>>), Elem("html", <<>>), Elem("body", <<>>) >>],
      [parent |-> <<0, 1>>,
       node |-> << Elem("[document]", <<>>), Elem("html", <<>>) >>] }

\* the root element simple_scrape will pick, and the nodes below it so far
RootOf(t) ==
    IF \E n \in 1..Len(t.node) : t.node[n].name = "body"
    THEN CHOOSE n \in 1..Len(t.node) : t.node[n].name = "body"
    ELSE CHOOSE n \in 1..Len(t.node) : t.node[n].name = "html"

FreeNodes(t) == Len(t.node) - RootOf(t)

\* the parser appends a node below the root element or below an element
\* parsed after it
AddNode(t, par, kind) ==
    [parent |-> Append(t.parent, par), node |-> Append(t.node, kind)]

-----------------------------------------------------------------------------
(* State *)

\* the uuid4 prefixes drawn for scraped_at
ScrapedAtIds == {"5f2a91c0"}

Slugs == {"a1b2c3d4", "e5f6a7b8"}

\* the request handled last: the handler, its argument and what it answered
NoRequest ==
    [op |-> "none", status |-> 0, url |-> <<>>, key |-> "", slug |-> "",
     cached |-> FALSE, count |-> 0]

NoResult ==
    [meta |-> [url |-> <<>>, title |-> <<>>, meta_description |-> <<>>, scraped_at |-> ""],
     index |-> EmptyIndex,
     stats |-> [total_elements |-> 0, links_count |-> 0, images_count |-> 0,
                headings_count |-> 0, unique_tags |-> {}]]

-----------------------------------------------------------------------------
(* The service *)

\* the url form values sent to /scrape, and what the pages behind them hold
Url1 == BaseUrl
Url2 == <<"https:", "s.com", "b">>
FormUrls == { Url1, Url2, <<" ">> \o Url1 \o <<"\n">> }
StrippedUrls == { Strip(u) : u \in FormUrls }

\* str hashes of the process: up to the naming of the hash values, the two
\* URLs hash apart or alike
HashValues == {17, 42}
HashSeeds == { h \in [StrippedUrls -> HashValues] : h[Url1] = 17 }

\* <p>Hello world</p><p> Hi</p> below a head with a title and a description
PageA ==
    [parent |-> <<0, 1, 2, 3, 4, 3, 2, 7, 8, 7, 10>>,
     node |-> << Elem("[document]", <<>>), Elem("html", <<>>), Elem("head", <<>>),
                 Elem("title", <<>>), TextNode(PageTitle),
                 Elem("meta", << <<"name", <<"description">>>>,
                                 <<"content", PageDescription>> >>),
                 Elem("body", <<>>),
                 Elem("p", <<>>), TextNode(HelloWorld),
                 Elem("p", <<>>), TextNode(Hi) >>]

\* <h1>Hello world</h1><a href="https://other.com/x"> Hi</a>
PageB ==
    [parent |-> <<0, 1, 2, 3, 4, 3, 6>>,
     node |-> << Elem("[document]", <<>>), Elem("html", <<>>), Elem("body", <<>>),
                 Elem("h1", <<>>), TextNode(HelloWorld),
                 Elem("a", << <<"href", AbsUrl>> >>), TextNode(Hi) >>]

Pages == {PageA, PageB}

\* seconds a fetch and index may take, and the pauses between requests
BuildTimes == {1}
TickSteps == {CACHE_DURATION - 1, CACHE_DURATION, CACHE_DURATION + 1}

\* main.py:50-52
get_cache_key(url) == "cache_" \o ToString(hashseed[url])

\* is_cache_valid with the boundary included: an entry of age CACHE_DURATION
\* still counts as valid
is_cache_valid_Inclusive(cache_entry, t) ==
    t - cache_entry.timestamp <= CACHE_DURATION

\* main.py:54-56, t being time.time()
is_cache_valid(cache_entry, t) == t - cache_entry.timestamp < CACHE_DURATION

\* main.py:478: simple_scrape(url_str) for each page the fetch may bring
Scraped ==
    [url \in StrippedUrls, page \in Pages, uid \in ScrapedAtIds |->
        simple_scrape(url, page, uid)]

Response(op, status, key, slug, cached, count) ==
    [op |-> op, status |-> status, url |-> <<>>, key |-> key, slug |-> slug,
     cached |-> cached, count |-> count]

\* the answer to POST /scrape for url_str
ScrapeResponse(url_str, status, key, slug, cached, count) ==
    [Response("scrape", status, key, slug, cached, count) EXCEPT !.url = url_str]

\* the /scrape handlers that may be under way, and one that is not
Requests == {1, 2}

Idle ==
    [pc |-> "idle", url_str |-> <<>>, cache_key |-> "", slug |-> "", data |-> NoResult]

NoneInFlight == [r \in Requests |-> Idle]

\* no build_fast_xpath call under way
NoWalk ==
    [tree |-> [parent |-> <<0>>, node |-> << Elem("[document]", <<>>) >>],
     pc |-> "idle", element |-> 0, current |-> 0, components |-> <<>>,
     hops |-> 0, path |-> ""]

Init ==
    /\ scrape_cache = EmptyDict
    /\ scraped_data = EmptyDict
    /\ now = 0
    /\ nbuilds = 0
    /\ hashseed \in HashSeeds
    /\ last = NoRequest
    /\ doc = [parent |-> <<0>>, node |-> << Elem("[document]", <<>>) >>]
    /\ result = NoResult
    /\ inflight = NoneInFlight
    /\ walk = NoWalk

\* main.py:452-471: the cache holds a valid entry for the key
ScrapeCached(url) ==
    LET url_str == Strip(url)
        cache_key == get_cache_key(url_str)
    IN /\ cache_key \in DOMAIN scrape_cache
       /\ is_cache_valid(scrape_cache[cache_key], now)
       /\ \E slug \in Slugs :
             /\ scraped_data' = Put(scraped_data, slug, scrape_cache[cache_key].data)
             /\ last' = ScrapeResponse(url_str, 200, cache_key, slug, TRUE,
                                 scrape_cache[cache_key].data.stats.total_elements)
       /\ UNCHANGED <<inflight, walk, scrape_cache, now, nbuilds, hashseed, doc, result>>

\* main.py:473-504: no valid entry, simple_scrape returns
ScrapeFresh(url) ==
    LET url_str == Strip(url)
        cache_key == get_cache_key(url_str)
    IN /\ ~(cache_key \in DOMAIN scrape_cache
            /\ is_cache_valid(scrape_cache[cache_key], now))
       /\ nbuilds < MaxBuilds
       /\ \E slug \in Slugs, page \in Pages, uid \in ScrapedAtIds, took \in BuildTimes :
             LET data == Scraped[url_str, page, uid]
             IN /\ scrape_cache' = Put(scrape_cache, cache_key,
                                       [data |-> data, timestamp |-> now + took])
                /\ scraped_data' = Put(scraped_data, slug, data)
                /\ now' = now + took
                /\ last' = ScrapeResponse(url_str, 200, cache_key, slug, FALSE,
                                    data.stats.total_elements)
       /\ nbuilds' = nbuilds + 1
       /\ UNCHANGED <<inflight, walk, hashseed, doc, result>>

\* a handler that remembers the failure: it caches an empty result for the key
ScrapeFailed_NegativeCache(url) ==
    LET url_str == Strip(url)
        cache_key == get_cache_key(url_str)
    IN /\ ~(cache_key \in DOMAIN scrape_cache
            /\ is_cache_valid(scrape_cache[cache_key], now))
       /\ nbuilds < MaxBuilds
       /\ \E took \in BuildTimes :
             /\ now' = now + took
             /\ scrape_cache' = Put(scrape_cache, cache_key,
                                    [data |-> NoResult, timestamp |-> now + took])
       /\ nbuilds' = nbuilds + 1
       /\ last' = ScrapeResponse(url_str, 400, cache_key, "", FALSE, 0)
       /\ UNCHANGED <<inflight, walk, scraped_data, hashseed, doc, result>>

\* main.py:473-478, 506-507 with 263-264: no valid entry, simple_scrape raises
ScrapeFailed(url) ==
    LET url_str == Strip(url)
        cache_key == get_cache_key(url_str)
    IN /\ ~(cache_key \in DOMAIN scrape_cache
            /\ is_cache_valid(scrape_cache[cache_key], now))
       /\ nbuilds < MaxBuilds
       /\ \E took \in BuildTimes : now' = now + took
       /\ nbuilds' = nbuilds + 1
       /\ last' = ScrapeResponse(url_str, 400, cache_key, "", FALSE, 0)
       /\ UNCHANGED <<inflight, walk, scrape_cache, scraped_data, hashseed, doc, result>>

\* POST /scrape
scrape_url ==
    \E url \in FormUrls : ScrapeCached(url) \/ ScrapeFresh(url) \/ ScrapeFailed(url)

\* the answer of a read handler: 404 for an unknown slug
ReadAnswer(op, slug, count) ==
    /\ last' = IF slug \in DOMAIN scraped_data
               THEN Response(op, 200, "", slug, FALSE, count)
               ELSE Response(op, 404, "", slug, FALSE, 0)
    /\ UNCHANGED <<inflight, walk,
                   scrape_cache, scraped_data, now, nbuilds, hashseed, doc, result>>

AskedSlugs == {"a1b2c3d4", "00000000"}
AskedTags == {"p", "table"}
AskedXPaths == {"/body[1]/p[2]", "/p[1]"}

\* a read that consumes what it returns: the entry leaves the session store
get_scraped_data_Pop ==
    \E slug \in AskedSlugs :
        /\ last' = IF slug \in DOMAIN scraped_data
                   THEN Response("get_scraped_data", 200, "", slug, FALSE,
                                 scraped_data[slug].stats.total_elements)
                   ELSE Response("get_scraped_data", 404, "", slug, FALSE, 0)
        /\ scraped_data' = [k \in DOMAIN scraped_data \ {slug} |-> scraped_data[k]]
        /\ UNCHANGED <<inflight, walk, scrape_cache, now, nbuilds, hashseed, doc, result>>

\* GET /api/{slug}
get_scraped_data ==
    \E slug \in AskedSlugs :
        ReadAnswer("get_scraped_data", slug,
                   IF slug \in DOMAIN scraped_data
                   THEN scraped_data[slug].stats.total_elements ELSE 0)

\* GET /api/{slug}/filter/tag/{tag_name}
filter_by_tag ==
    \E slug \in AskedSlugs, tag_name \in AskedTags :
        ReadAnswer("filter_by_tag", slug,
                   IF slug \in DOMAIN scraped_data
                      /\ tag_name \in DOMAIN scraped_data[slug].index.by_tag
                   THEN Len(scraped_data[slug].index.by_tag[tag_name]) ELSE 0)

\* GET /api/{slug}/filter/xpath
filter_by_xpath ==
    \E slug \in AskedSlugs, xpath \in AskedXPaths :
        ReadAnswer("filter_by_xpath", slug,
                   IF slug \in DOMAIN scraped_data
                      /\ xpath \in DOMAIN scraped_data[slug].index.by_xpath
                   THEN 1 ELSE 0)

\* GET /api/{slug}/links
get_links ==
    \E slug \in AskedSlugs :
        ReadAnswer("get_links", slug,
                   IF slug \in DOMAIN scraped_data
                   THEN Len(scraped_data[slug].index.links) ELSE 0)

\* GET /api/{slug}/images
get_images ==
    \E slug \in AskedSlugs :
        ReadAnswer("get_images", slug,
                   IF slug \in DOMAIN scraped_data
                   THEN Len(scraped_data[slug].index.images) ELSE 0)

\* GET /api/{slug}/headings
get_headings ==
    \E slug \in AskedSlugs :
        ReadAnswer("get_headings", slug,
                   IF slug \in DOMAIN scraped_data
                   THEN Len(scraped_data[slug].index.headings) ELSE 0)

\* GET /api/{slug}/text
get_text_content ==
    \E slug \in AskedSlugs :
        ReadAnswer("get_text_content", slug,
                   IF slug \in DOMAIN scraped_data
                   THEN Len(scraped_data[slug].index.text_content) ELSE 0)

\* the clock moves between two requests
Tick ==
    /\ \E step \in TickSteps :
          /\ now + step <= MaxTime
          /\ now' = now + step
    /\ last' = Response("tick", 0, "", "", FALSE, 0)
    /\ UNCHANGED <<inflight, walk,
                   scrape_cache, scraped_data, nbuilds, hashseed, doc, result>>

Next ==
    \/ scrape_url
    \/ get_scraped_data
    \/ filter_by_tag
    \/ filter_by_xpath
    \/ get_links
    \/ get_images
    \/ get_headings
    \/ get_text_content
    \/ Tick

Spec == Init /\ [][Next]_vars

-----------------------------------------------------------------------------
(* SpecIndex: the parser builds a document node by node, simple_scrape is *)
(* applied to it                                                          *)

InitIndex ==
    /\ doc \in { [parent |-> pre.parent, node |-> pre.node] : pre \in Prefixes }
    /\ result = NoResult
    /\ scrape_cache = EmptyDict
    /\ scraped_data = EmptyDict
    /\ now = 0
    /\ nbuilds = 0
    /\ hashseed = EmptyDict
    /\ last = NoRequest
    /\ inflight = NoneInFlight
    /\ walk = NoWalk

ParseNode ==
    /\ last.op = "none"
    /\ FreeNodes(doc) < MaxNodes
    /\ \E par \in { n \in RootOf(doc)..Len(doc.node) : doc.node[n].name # "" } :
       \E kind \in (IF doc.node[RootOf(doc)].name = "body" THEN BodyKinds ELSE FrameKinds) :
          doc' = AddNode(doc, par, kind)
    /\ UNCHANGED <<inflight, walk,
                   scrape_cache, scraped_data, now, nbuilds, hashseed, last, result>>

ScrapeDoc ==
    /\ last.op = "none"
    /\ \E uid \in ScrapedAtIds : result' = simple_scrape(BaseUrl, doc, uid)
    /\ last' = [NoRequest EXCEPT !.op = "simple_scrape", !.status = 200]
    /\ UNCHANGED <<inflight, walk,
                   scrape_cache, scraped_data, now, nbuilds, hashseed, doc>>

NextIndex == ParseNode \/ ScrapeDoc

SpecIndex == InitIndex /\ [][NextIndex]_vars

-----------------------------------------------------------------------------
(* SpecConc: /scrape handlers and readers interleaved statement by         *)
(* statement.  Each handler keeps its position and its local variables in  *)
(* inflight; the two dictionaries are shared.                              *)

\* what the fetches of the interleaved handlers bring
ConcPages == {PageA}

\* main.py:448-449
ConcArrive(r) ==
    /\ inflight[r].pc = "idle"
    /\ \E url \in FormUrls :
          inflight' = [inflight EXCEPT ![r] =
                         [Idle EXCEPT !.pc = "check",
                                      !.url_str = Strip(url),
                                      !.cache_key = get_cache_key(Strip(url))]]
    /\ UNCHANGED <<scrape_cache, scraped_data, now, nbuilds, hashseed, last, doc,
                   result, walk>>

\* main.py:452-453: the test finds a valid entry, cached_data is that entry
ConcCheckHit(r) ==
    /\ inflight[r].pc = "check"
    /\ inflight[r].cache_key \in DOMAIN scrape_cache
    /\ is_cache_valid(scrape_cache[inflight[r].cache_key], now)
    /\ inflight' = [inflight EXCEPT ![r].pc = "hit",
                                    ![r].data = scrape_cache[inflight[r].cache_key].data]
    /\ UNCHANGED <<scrape_cache, scraped_data, now, nbuilds, hashseed, last, doc,
                   result, walk>>

\* main.py:452, 473-478: the test fails, the slug is drawn and simple_scrape
\* is called
ConcCheckMiss(r) ==
    /\ inflight[r].pc = "check"
    /\ ~(inflight[r].cache_key \in DOMAIN scrape_cache
         /\ is_cache_valid(scrape_cache[inflight[r].cache_key], now))
    /\ nbuilds < MaxBuilds
    /\ nbuilds' = nbuilds + 1
    /\ \E slug \in Slugs :
          inflight' = [inflight EXCEPT ![r].pc = "build", ![r].slug = slug]
    /\ UNCHANGED <<scrape_cache, scraped_data, now, hashseed, last, doc, result, walk>>

\* the response of the handler r once it holds slug and data
ConcRespond(r, slug, data, cached) ==
    /\ last' = [Response("scrape", 200, inflight[r].cache_key, slug, cached,
                         data.stats.total_elements)
                  EXCEPT !.url = inflight[r].url_str]
    /\ inflight' = [inflight EXCEPT ![r] = Idle]

\* main.py:454-471
ConcHitStore(r) ==
    /\ inflight[r].pc = "hit"
    /\ \E slug \in Slugs :
          /\ scraped_data' = Put(scraped_data, slug, inflight[r].data)
          /\ ConcRespond(r, slug, inflight[r].data, TRUE)
    /\ UNCHANGED <<scrape_cache, now, nbuilds, hashseed, doc, result, walk>>

\* main.py:478-479: simple_scrape returns
ConcBuild(r) ==
    /\ inflight[r].pc = "build"
    /\ \E page \in ConcPages, uid \in ScrapedAtIds, took \in BuildTimes :
          /\ now + took <= MaxTime
          /\ now' = now + took
          /\ inflight' = [inflight EXCEPT
                            ![r].pc = "cache",
                            ![r].data = Scraped[inflight[r].url_str, page, uid]]
    /\ UNCHANGED <<scrape_cache, scraped_data, nbuilds, hashseed, last, doc, result,
                   walk>>

\* main.py:478, 506-507 with 263-264: simple_scrape raises
ConcBuildFailed(r) ==
    /\ inflight[r].pc = "build"
    /\ \E took \in BuildTimes :
          /\ now + took <= MaxTime
          /\ now' = now + took
    /\ last' = [Response("scrape", 400, inflight[r].cache_key, "", FALSE, 0)
                  EXCEPT !.url = inflight[r].url_str]
    /\ inflight' = [inflight EXCEPT ![r] = Idle]
    /\ UNCHANGED <<scrape_cache, scraped_data, nbuilds, hashseed, doc, result, walk>>

\* a store in two assignments: the entry appears with its timestamp and
\* receives its data afterwards
ConcCacheStore_Piecewise(r) ==
    /\ inflight[r].pc = "cache"
    /\ IF /\ inflight[r].cache_key \in DOMAIN scrape_cache
          /\ "data" \notin DOMAIN scrape_cache[inflight[r].cache_key]
       THEN /\ scrape_cache' = Put(scrape_cache, inflight[r].cache_key,
                                   [data |-> inflight[r].data,
                                    timestamp |-> scrape_cache[inflight[r].cache_key].timestamp])
            /\ inflight' = [inflight EXCEPT ![r].pc = "session"]
       ELSE /\ scrape_cache' = Put(scrape_cache, inflight[r].cache_key,
                                   [timestamp |-> now])
            /\ UNCHANGED inflight
    /\ UNCHANGED <<scraped_data, now, nbuilds, hashseed, last, doc, result, walk>>

\* main.py:482-485: one assignment of the finished entry
ConcCacheStore(r) ==
    /\ inflight[r].pc = "cache"
    /\ scrape_cache' = Put(scrape_cache, inflight[r].cache_key,
                           [data |-> inflight[r].data, timestamp |-> now])
    /\ inflight' = [inflight EXCEPT ![r].pc = "session"]
    /\ UNCHANGED <<scraped_data, now, nbuilds, hashseed, last, doc, result, walk>>

\* main.py:487-504
ConcSessionStore(r) ==
    /\ inflight[r].pc = "session"
    /\ scraped_data' = Put(scraped_data, inflight[r].slug, inflight[r].data)
    /\ ConcRespond(r, inflight[r].slug, inflight[r].data, FALSE)
    /\ UNCHANGED <<scrape_cache, now, nbuilds, hashseed, doc, result, walk>>

\* main.py:509-514: GET /api/{slug}, result is what the reader is handed
ConcRead ==
    /\ \E slug \in AskedSlugs :
          IF slug \in DOMAIN scraped_data
          THEN /\ result' = scraped_data[slug]
               /\ last' = Response("get_scraped_data", 200, "", slug, FALSE,
                                   scraped_data[slug].stats.total_elements)
          ELSE /\ result' = NoResult
               /\ last' = Response("get_scraped_data", 404, "", slug, FALSE, 0)
    /\ UNCHANGED <<scrape_cache, scraped_data, now, nbuilds, hashseed, doc,
                   inflight, walk>>

\* the clock moves by the lifetime of an entry
ConcTick ==
    /\ now + CACHE_DURATION <= MaxTime
    /\ now' = now + CACHE_DURATION
    /\ UNCHANGED <<scrape_cache, scraped_data, nbuilds, hashseed, last, doc, result,
                   inflight, walk>>

NextConc ==
    \/ \E r \in Requests :
          \/ ConcArrive(r)
          \/ ConcCheckHit(r)
          \/ ConcCheckMiss(r)
          \/ ConcHitStore(r)
          \/ ConcBuild(r)
          \/ ConcBuildFailed(r)
          \/ ConcCacheStore(r)
          \/ ConcSessionStore(r)
    \/ ConcRead
    \/ ConcTick

SpecConc == Init /\ [][NextConc]_vars

-----------------------------------------------------------------------------
(* SpecWalk: one call of build_fast_xpath, a turn of its loop at a time, on *)
(* any tree of MaxWalkNodes nodes: the parent of a node is any node or     *)
(* None, so chains that never reach body or html and chains that come back *)
(* to a node they left are among them.                                     *)

WalkNames == {"body", "div", "p", ""}

WalkTrees ==
    { [parent |-> pa,
       node |-> [i \in 1..MaxWalkNodes |->
                    IF nm[i] = "" THEN TextNode(Hi) ELSE Elem(nm[i], <<>>)]] :
        pa \in [1..MaxWalkNodes -> 0..MaxWalkNodes],
        nm \in [1..MaxWalkNodes -> WalkNames] }

\* main.py:383-384
WalkStart ==
    /\ walk.pc = "idle"
    /\ \E tree \in WalkTrees, element \in 1..MaxWalkNodes :
          walk' = [NoWalk EXCEPT !.tree = tree, !.pc = "loop",
                                 !.element = element, !.current = element]
    /\ UNCHANGED <<scrape_cache, scraped_data, now, nbuilds, hashseed, last, doc,
                   result, inflight>>

\* main.py:386: while current and current.name
WalkGoesOn == walk.current # 0 /\ Name(walk.tree, walk.current) # ""

\* main.py:387-402: one turn of the loop; it ends the loop when the parent
\* is body or html
WalkTurn ==
    /\ walk.pc = "loop"
    /\ WalkGoesOn
    /\ walk.hops < MaxHops
    /\ walk' = [walk EXCEPT
          !.components =
              Append(@, Name(walk.tree, walk.current) \o "["
                          \o ToString(PositionOf(walk.tree, walk.current)) \o "]")
                \o (IF Parent(walk.tree, walk.current) # 0
                       /\ Name(walk.tree, Parent(walk.tree, walk.current)) = "body"
                    THEN <<"body[1]">> ELSE <<>>),
          !.current = Parent(walk.tree, walk.current),
          !.hops = @ + 1,
          !.pc = IF Parent(walk.tree, walk.current) # 0
                    /\ Name(walk.tree, Parent(walk.tree, walk.current)) \in {"body", "html"}
                 THEN "break" ELSE "loop"]
    /\ UNCHANGED <<scrape_cache, scraped_data, now, nbuilds, hashseed, last, doc,
                   result, inflight>>

\* main.py:404-405, reached from the break or from the loop test
WalkReturn ==
    /\ walk.pc = "break" \/ (walk.pc = "loop" /\ ~WalkGoesOn)
    /\ walk' = [walk EXCEPT
          !.pc = IF walk.pc = "break" THEN "done at root" ELSE "done",
          !.path = IF walk.components # <<>>
                   THEN "/" \o JoinStr(Reverse(walk.components), "/")
                   ELSE "/unknown[1]"]
    /\ UNCHANGED <<scrape_cache, scraped_data, now, nbuilds, hashseed, last, doc,
                   result, inflight>>

NextWalk == WalkStart \/ WalkTurn \/ WalkReturn

SpecWalk == Init /\ [][NextWalk]_vars

-----------------------------------------------------------------------------
(* What the claims about the two stores speak of.  A step with              *)
(* last'.op = "scrape" is one POST /scrape, last'.key the cache key of its  *)
(* URL, nbuilds the number of simple_scrape calls made so far.              *)

ReadOps ==
    {"get_scraped_data", "filter_by_tag", "filter_by_xpath", "get_links",
     "get_images", "get_headings", "get_text_content"}

\* an entry exists for the key with now - created_at < 7200
LiveEntry(key) ==
    /\ key \in DOMAIN scrape_cache
    /\ now - scrape_cache[key].timestamp < CACHE_DURATION

\* the same of the key just asked for, once the call is over
LiveEntryAfter ==
    /\ last'.key \in DOMAIN scrape_cache'
    /\ now' - scrape_cache'[last'.key].timestamp < CACHE_DURATION

\* the call returns the stored result unchanged and builds nothing
HitStep ==
    /\ last'.status = 200
    /\ last'.cached
    /\ nbuilds' = nbuilds
    /\ now' = now
    /\ scrape_cache' = scrape_cache
    /\ scraped_data'[last'.slug] = scrape_cache[last'.key].data

\* the call builds once, stores a fresh entry and returns it as a miss
MissStep ==
    /\ last'.status = 200
    /\ ~last'.cached
    /\ nbuilds' = nbuilds + 1
    /\ last'.key \in DOMAIN scrape_cache'
    /\ scrape_cache'[last'.key].timestamp = now'
    /\ now' >= now
    /\ scraped_data'[last'.slug] = scrape_cache'[last'.key].data

\* the call builds once, the build raises, nothing is stored
FailedStep ==
    /\ last'.status = 400
    /\ ~last'.cached
    /\ nbuilds' = nbuilds + 1
    /\ scrape_cache' = scrape_cache
    /\ scraped_data' = scraped_data

-----------------------------------------------------------------------------
(* C1 as stated: a /scrape call is a hit, building nothing, exactly when    *)
(* an entry of age below 7200 exists for its key; otherwise it builds       *)
(* once, stores a fresh entry and answers was_cache_hit = false.            *)
C1_AsStated ==
    [][ last'.op = "scrape" =>
          IF LiveEntry(last'.key) THEN HitStep ELSE MissStep ]_vars

(* C1, amended: a /scrape call is a hit, building nothing, exactly when an  *)
(* entry of age below 7200 exists for its key; otherwise it builds exactly  *)
(* once and, when the build returns, stores a fresh entry stamped with the  *)
(* time after the build and answers was_cache_hit = false; when the build   *)
(* raises it stores nothing.  Two calls for one key within the window       *)
(* build once; an entry of age 7200 or more is rebuilt.                     *)
C1_CacheContract ==
    [][ last'.op = "scrape" =>
          IF LiveEntry(last'.key) THEN HitStep ELSE MissStep \/ FailedStep ]_vars

\* a hit on an entry one second short of CACHE_DURATION, after one build
C1_Witness ==
    /\ last.op = "scrape"
    /\ last.cached
    /\ nbuilds = 1
    /\ now - scrape_cache[last.key].timestamp = CACHE_DURATION - 1

(* C2: put never overwrites.  Every successful /scrape stores its result    *)
(* under an id that was not a key of the session store before, and every    *)
(* id handed out earlier still resolves to the result it was minted for.    *)
C2_PutNeverOverwrites ==
    [][ (last'.op = "scrape" /\ last'.status = 200) =>
          /\ last'.slug \notin DOMAIN scraped_data
          /\ \A s \in DOMAIN scraped_data :
                s \in DOMAIN scraped_data' /\ scraped_data'[s] = scraped_data[s] ]_vars

(* C3: a build that raises writes no cache entry and no session entry, the  *)
(* next /scrape for that key builds again, and what the cache holds is      *)
(* always the result of a build that returned.                              *)
C3_FailureLeavesNoTrace ==
    /\ [][ (last'.op = "scrape" /\ last'.status = 400) =>
             /\ scrape_cache' = scrape_cache
             /\ scraped_data' = scraped_data
             /\ nbuilds' = nbuilds + 1
             /\ ~LiveEntryAfter ]_vars
    /\ [][ ( /\ last.op = "scrape" /\ last.status = 400
             /\ last'.op = "scrape" /\ last'.key = last.key ) =>
             /\ nbuilds' = nbuilds + 1
             /\ ~last'.cached ]_vars
    /\ [](\A k \in DOMAIN scrape_cache :
             \E u \in StrippedUrls, pg \in Pages, uid \in ScrapedAtIds :
                scrape_cache[k].data = Scraped[u, pg, uid])

\* a first build has just raised: the clock has moved, both stores are
\* still empty, and the retry can follow
C3_Witness ==
    /\ last.op = "scrape"
    /\ last.status = 400
    /\ nbuilds = 1
    /\ now > 0
    /\ scrape_cache = EmptyDict
    /\ scraped_data = EmptyDict

(* C10: every read handler leaves the session store and the result cache    *)
(* unchanged, found or not; only /scrape changes either store.              *)
C10_ReadsChangeNothing ==
    /\ [][ last'.op \in ReadOps =>
             scrape_cache' = scrape_cache /\ scraped_data' = scraped_data ]_vars
    /\ [][ (scrape_cache' # scrape_cache \/ scraped_data' # scraped_data) =>
             last'.op = "scrape" ]_vars

\* a read has just found its slug, and both stores hold entries
C10_Witness ==
    /\ last.op = "get_scraped_data"
    /\ last.status = 200
    /\ last.slug \in DOMAIN scraped_data
    /\ scrape_cache # EmptyDict

-----------------------------------------------------------------------------
(* What the claims about the indexer speak of, stated on the document      *)
(* itself: sets of nodes and the parent relation, not the traversal.       *)

Built == last.op = "simple_scrape"

NodesOf(t) == 1..Len(t.node)

RECURSIVE IsAncestor(_, _, _)
IsAncestor(t, a, n) ==
    /\ t.parent[n] # 0
    /\ (t.parent[n] = a \/ IsAncestor(t, a, t.parent[n]))

\* the stable root: the body, or the html element if there is no body
StableRoot(t) ==
    IF \E n \in NodesOf(t) : t.node[n].name = "body"
    THEN CHOOSE n \in NodesOf(t) : t.node[n].name = "body"
    ELSE CHOOSE n \in NodesOf(t) : t.node[n].name = "html"

\* the element nodes below the stable root
ElementsOf(t) ==
    { n \in NodesOf(t) : t.node[n].name # "" /\ IsAncestor(t, StableRoot(t), n) }

TextNodesOf(t) ==
    { n \in NodesOf(t) : t.node[n].name = "" /\ IsAncestor(t, StableRoot(t), n) }

\* the nodes from the top of the tree down to n
RECURSIVE ChainTo(_, _)
ChainTo(t, n) == IF t.parent[n] = 0 THEN <<n>> ELSE Append(ChainTo(t, t.parent[n]), n)

\* a comes before b in document order (pre-order): a is an ancestor of b, or
\* below their last common ancestor a's branch is the earlier child
Precedes(t, a, b) ==
    LET ca == ChainTo(t, a)
        cb == ChainTo(t, b)
    IN /\ a # b
       /\ \/ /\ Len(ca) < Len(cb)
             /\ SubSeq(cb, 1, Len(ca)) = ca
          \/ \E i \in 1..Len(ca) :
                /\ i <= Len(cb)
                /\ SubSeq(ca, 1, i - 1) = SubSeq(cb, 1, i - 1)
                /\ ca[i] < cb[i]

\* the nodes of S in document order
InDocOrder(t, S) ==
    [i \in 1..Cardinality(S) |->
        CHOOSE n \in S : Cardinality({m \in S : Precedes(t, m, n)}) = i - 1]

\* tag[n], n being 1 + the preceding siblings with the same tag name
Segment(t, n) ==
    t.node[n].name \o "["
      \o ToString(1 + Cardinality({j \in NodesOf(t) :
                        /\ t.parent[j] = t.parent[n]
                        /\ j < n
                        /\ t.node[j].name = t.node[n].name}))
      \o "]"

\* the path of the claim, from the stable root down
RECURSIVE TopDownPath(_, _)
TopDownPath(t, n) ==
    IF n = StableRoot(t)
    THEN IF t.node[n].name = "body" THEN "/body[1]" ELSE ""
    ELSE TopDownPath(t, t.parent[n]) \o "/" \o Segment(t, n)

\* the value of attribute key in an IndexedElement's attributes
AttrOf(attributes, key) ==
    LET hits == SelectSeq(attributes, LAMBDA p : p[1] = key)
    IN IF hits = <<>> THEN <<>> ELSE hits[1][2]

RawAttr(t, n, key) == AttrOf(t.node[n].attrs, key)

XPathsOf(entries) == [i \in 1..Len(entries) |-> entries[i].xpath]

-----------------------------------------------------------------------------
(* C4: path uniqueness.  In every document handed to the indexer the       *)
(* paths build_fast_xpath gives to two different element nodes below the   *)
(* root differ, and by_xpath holds one entry per indexed element.          *)
C4_PathUniqueness ==
    Built =>
      LET soup == Decompose(doc)
          els == ElementsOf(doc)
      IN /\ \A a, b \in els :
               a # b => build_fast_xpath(soup, a) # build_fast_xpath(soup, b)
         /\ Cardinality(DOMAIN result.index.by_xpath) = Cardinality(els)
         /\ \A a \in els :
               /\ build_fast_xpath(soup, a) \in DOMAIN result.index.by_xpath
               /\ result.index.by_xpath[build_fast_xpath(soup, a)].tag = doc.node[a].name

\* an indexed document with two siblings of one tag and that tag elsewhere too
C4_Witness ==
    /\ Built
    /\ \E a, b, c \in ElementsOf(doc) :
          /\ a # b /\ b # c /\ a # c
          /\ doc.node[a].name = doc.node[b].name
          /\ doc.node[b].name = doc.node[c].name
          /\ doc.parent[a] = doc.parent[b]
          /\ doc.parent[c] # doc.parent[a]
    /\ Cardinality(DOMAIN result.index.by_xpath) = 3

C6_TitleAndDescription ==
    Built =>
      LET titles == { n \in NodesOf(doc) : doc.node[n].name = "title" }
          metas == { n \in NodesOf(doc) :
                       /\ doc.node[n].name = "meta"
                       /\ RawAttr(doc, n, "name") = <<"description">> }
          first_title == InDocOrder(doc, titles)[1]
      IN /\ result.meta.title =
              IF titles = {} THEN <<NoTitle>>
              ELSE << doc.node[CHOOSE c \in NodesOf(doc) : doc.parent[c] = first_title].data >>
         /\ result.meta.meta_description =
              IF metas = {} THEN <<>>
              ELSE << RawAttr(doc, InDocOrder(doc, metas)[1], "content") >>

(* C7: every href of an anchor and src of an image is stored only in its   *)
(* resolved form: the value in the IndexedElement's attributes equals      *)
(* urljoin(base_url, raw value) and the url of its links/images entry.     *)
C7_StoredUrlsResolved ==
    Built =>
      \A n \in ElementsOf(doc) :
        \A key \in {"href", "src"} :
          ( /\ doc.node[n].name = (IF key = "href" THEN "a" ELSE "img")
            /\ RawAttr(doc, n, key) # <<>> )
          =>
          LET e == result.index.by_xpath[TopDownPath(doc, n)]
              resolved == urljoin(BaseUrl, RawAttr(doc, n, key))
          IN /\ AttrOf(e.attributes, key) = resolved
             /\ IF key = "href"
                THEN \E i \in 1..Len(result.index.links) :
                        /\ result.index.links[i].xpath = e.xpath
                        /\ result.index.links[i].url = AttrOf(e.attributes, key)
                ELSE \E i \in 1..Len(result.index.images) :
                        /\ result.index.images[i].xpath = e.xpath
                        /\ result.index.images[i].src = AttrOf(e.attributes, key)

(* C8: text_content holds, in document order, one entry per qualifying     *)
(* text fragment (trimmed length > 10) up to the first 100 of them: never  *)
(* more than 100 entries, never a text of trimmed length 10 or less, and   *)
(* a qualifying fragment is missing only when 100 precede it.              *)
C8_TextContent ==
    Built =>
      LET qualifying == { n \in TextNodesOf(doc) : Len(Strip(doc.node[n].data)) > MinTextLen }
          ordered == InDocOrder(doc, qualifying)
          expected == Take(ordered, TextElementsCap)
      IN /\ Len(result.index.text_content) <= TextElementsCap
         /\ \A i \in 1..Len(result.index.text_content) :
               Len(Strip(result.index.text_content[i].text)) > MinTextLen
         /\ [i \in 1..Len(result.index.text_content) |-> result.index.text_content[i].text]
              = [i \in 1..Len(expected) |->
                    Take(Strip(doc.node[expected[i]].data), TextContentCap)]

(* C9: order preservation.  For every tag t the entries of by_tag[t], and  *)
(* for every class string c those of by_class[c], are the element nodes    *)
(* with that tag (class string) in document order, each once.              *)
C9_OrderPreserved ==
    Built =>
      LET els == ElementsOf(doc)
          tags == { doc.node[n].name : n \in els }
          classed == { n \in els : RawAttr(doc, n, "class") # <<>> }
          class_strings == { JoinStr(RawAttr(doc, n, "class"), " ") : n \in classed }
          Paths(S) == [i \in 1..Cardinality(S) |-> TopDownPath(doc, InDocOrder(doc, S)[i])]
      IN /\ DOMAIN result.index.by_tag = tags
         /\ \A tg \in tags :
               /\ XPathsOf(result.index.by_tag[tg])
                    = Paths({ n \in els : doc.node[n].name = tg })
               /\ \A i \in 1..Len(result.index.by_tag[tg]) :
                     result.index.by_tag[tg][i].tag = tg
         /\ DOMAIN result.index.by_class = class_strings
         /\ \A c \in class_strings :
               XPathsOf(result.index.by_class[c])
                 = Paths({ n \in classed : JoinStr(RawAttr(doc, n, "class"), " ") = c })

\* a tag whose elements sit at different depths, the deeper one first in
\* document order though parsed later, and a class shared by two tags
C9_Witness ==
    /\ Built
    /\ \E a, b \in ElementsOf(doc) :
          /\ doc.node[a].name = doc.node[b].name
          /\ a < b
          /\ Precedes(doc, b, a)
          /\ Len(result.index.by_tag[doc.node[a].name]) = 2
    /\ \E c \in DOMAIN result.index.by_class :
          /\ Len(result.index.by_class[c]) >= 2
          /\ result.index.by_class[c][1].tag # result.index.by_class[c][2].tag

-----------------------------------------------------------------------------
(* What the claim about interleaved handlers speaks of *)

\* a completely built result: meta, index and stats all present, and the
\* value one simple_scrape call returned
Complete(d) ==
    /\ DOMAIN d = {"meta", "index", "stats"}
    /\ \E u \in StrippedUrls, pg \in Pages, uid \in ScrapedAtIds : d = Scraped[u, pg, uid]

(* C11: under every interleaving of /scrape handlers and readers, an entry *)
(* found in the result cache carries a completely built result and its     *)
(* timestamp, a slug found in the session store maps to a completely built *)
(* result, and what a reader is handed is completely built.                *)
C11_EntriesFullyFormed ==
    /\ \A k \in DOMAIN scrape_cache :
          /\ DOMAIN scrape_cache[k] = {"data", "timestamp"}
          /\ Complete(scrape_cache[k].data)
          /\ scrape_cache[k].timestamp \in 0..now
    /\ \A slug \in DOMAIN scraped_data : Complete(scraped_data[slug])
    /\ (last.op = "get_scraped_data" /\ last.status = 200) => Complete(result)

\* one handler has stored its cache entry and not yet its session entry,
\* another has found that entry and is about to store it under its own
\* slug, and a reader has been handed a result meanwhile
C11_Witness ==
    /\ \E r1, r2 \in Requests :
          /\ inflight[r1].pc = "session"
          /\ inflight[r2].pc = "hit"
          /\ inflight[r2].cache_key = inflight[r1].cache_key
          /\ inflight[r1].slug \notin DOMAIN scraped_data
    /\ scraped_data # EmptyDict
    /\ last.op = "get_scraped_data"
    /\ last.status = 200

-----------------------------------------------------------------------------
(* C12: build_fast_xpath on any node stops: its walk takes no more turns   *)
(* than the tree has nodes, a chain that comes back to a node included,    *)
(* and a walk that ends without having reached body or html returns the    *)
(* fallback path /unknown[1].                                              *)
C12_WalkStopsAndReports ==
    /\ walk.hops <= Len(walk.tree.node)
    /\ walk.pc = "done" => walk.path = "/unknown[1]"

-----------------------------------------------------------------------------
(* C13: a cache hit never crosses source identifiers.  After every         *)
(* successful /scrape for URL u the result stored under the new slug, and  *)
(* the cache entry under u's key, were built for u (meta.url = u): two     *)
(* different URLs never share a cache entry through get_cache_key.         *)
C13_HitNeverCrosses ==
    [][ (last'.op = "scrape" /\ last'.status = 200) =>
          /\ scraped_data'[last'.slug].meta.url = last'.url
          /\ scrape_cache'[last'.key].data.meta.url = last'.url ]_vars

====
